---- MODULE Spec2Model ----
(***************************************************************************)
(* The durable task queue of the hook machine: lib/filequeue.js            *)
(* (TaskQueue) over lib/FileMutex.js (Mutex), as one event loop.           *)
(*                                                                         *)
(* One action is one turn of the event loop: a call made from outside      *)
(* (push, get), a deferred call (_.defer, setTimeout) or the callback of   *)
(* an asynchronous operation (fs.flock, mkdirp, fs.readdir, fs.readFile,   *)
(* fs.writeFile, fs.unlink, fs.exists, the worker).  A value of pc is      *)
(* the asynchronous operation whose callback the invocation waits for.     *)
(***************************************************************************)
EXTENDS Integers, Sequences, FiniteSets, TLC

\* ------------------------------------------------------------- bounds
MaxJobs == 2        \* number of task ids uuid.v1() hands out
MaxGets == 1        \* get invocations in flight at a time
MaxFaults == 1      \* failures the file system reports in one run
MaxChecks == 2      \* periodic checks the server runs
PeriodicHooks == 1  \* hooks of config.PERIODIC_HOOKS

\* --------------------------------------------------- program constants
MaxItems == 1       \* options.maxItems as the server sets it

Jobs == 1..MaxJobs
MaxRunners == 2 * MaxJobs + 1
Runners == 1..MaxRunners
Getters == 1..MaxGets

\* The identities handed to Mutex.lock: task.id, 'runner-' + uuid, 'get-' + uuid
T(j) == <<"task", j>>
R(r) == <<"runner", r>>
G(g) == <<"get", g>>
TaskOps == {T(j) : j \in Jobs}
RunnerOps == {R(r) : r \in Runners}
GetOps == {G(g) : g \in Getters}
Ops == TaskOps \cup RunnerOps \cup GetOps
NoOne == <<"null", 0>>

\* A second call of Mutex.lock made with identity op while op holds the lock
Again(op) == <<"again", op>>
AgainOps == {Again(op) : op \in Ops}
Calls == Ops \cup AgainOps

\* The id a call of Mutex.lock was made with
Id(call) == IF call[1] = "again" THEN call[2] ELSE call

Kind(op) == op[1]
Num(op) == op[2]

\* A task as JSON.stringify writes it (the fields the queue sets)
Absent == [status |-> "absent", error |-> "none", errorCode |-> 0,
           result |-> FALSE, dateFinished |-> FALSE]
NewTask == [status |-> "pending", error |-> "none", errorCode |-> 0,
            result |-> FALSE, dateFinished |-> FALSE]

\* What get's callback has received: nothing yet, undefined, an error, or
\* a task; alias is the runner whose in-memory task object the received
\* value is, 0 when the value is an object of its own
NoResult == [kind |-> "none", task |-> Absent, alias |-> 0]

\* What the worker hands to its callback: (err, result)
WorkerOutcomes == {"ok", "okResult", "ParamError", "ProxyError", "InternalError"}

VARIABLES
    pc,             \* per invocation: the callback it waits for
    arg,            \* per invocation: the task id it works on (0: none)
    obj,            \* per runner: the task object parsed from the pending file
    ret,            \* per get invocation: what its callback received
    lockedBy,       \* Mutex.lockedBy
    queue,          \* Mutex.queue
    fd,             \* Mutex.fd is open
    osLock,         \* who holds the flock on the lock file: free, self, ext
    runningTasks,   \* TaskQueue.runningTasks (task objects, by their runner)
    initialized,    \* TaskQueue.initialized
    error,          \* TaskQueue.error is set
    startPc,        \* the whenReady call made by start()
    deferredChecks, \* checkNextTask calls scheduled by _.defer
    layout,         \* the id, pending and running folders exist
    index,          \* folder id
    pendingB,       \* folder pending
    runningB,       \* folder running
    faultsLeft,     \* failures the file system may still report
    crashed,        \* an exception escaped a callback: the process ended
    invoked,        \* per task id: number of calls of the worker
    finished,       \* per task id: runTask's bookkeeping has ended
    thrown,         \* the exception the latest call or callback raised
    requests,       \* the calls of Mutex.lock not granted yet, oldest first
    maxItems,       \* TaskQueue.options.maxItems
    checks,         \* server: number of periodic checks run
    oldLock,        \* server: the lock file of an earlier process (none, stale, removed)
    started,        \* server: the startup code has run
    action,         \* gitaction: the action the worker was called with
    script,         \* gitaction: the variable script (none, child, null)
    timeout,        \* gitaction: the timer that sends SIGTERM
    killTimer,      \* gitaction: the timer that sends SIGKILL
    outFragment,    \* gitaction: the variable outFragment
    errFragment,    \* gitaction: the variable errFragment
    called,         \* gitaction: number of calls of callback
    reported,       \* gitaction: what callback received
    sh,             \* gitaction.sh: where the shell is
    signal,         \* gitaction.sh: the latest signal sent to the shell
    stdout,         \* gitaction.sh: how the unread output ends
    stderr,         \* gitaction.sh: how the unread error output ends
    needsUpdate,    \* gitaction.sh: the variable needsUpdate
    result,         \* gitaction.sh: the variable result
    code,           \* gitaction.sh: the exit status given to 'close'
    checkCode,      \* gitaction.sh: the exit status of the check script
    scriptCode      \* gitaction.sh: the exit status of the action script

serverVars == <<maxItems, checks, oldLock, started>>
gitVars == <<action, script, timeout, killTimer, outFragment, errFragment,
             called, reported>>
shVars == <<sh, signal, stdout, stderr, needsUpdate, result, code,
            checkCode, scriptCode>>
hostVars == <<serverVars, gitVars, shVars>>

queueVars == <<pc, arg, obj, ret, lockedBy, queue, fd, osLock, runningTasks,
               initialized, error, startPc, deferredChecks, layout, index,
               pendingB, runningB, faultsLeft, invoked, finished, requests>>

vars == <<queueVars, crashed, thrown, hostVars>>

ctlVars == <<pc, lockedBy, queue, fd, osLock, deferredChecks, crashed, ret>>
diskVars == <<layout, index, pendingB, runningB>>

\* A task as checkNextTask writes it
RunningRecord == [NewTask EXCEPT !.status = "running"]

\* gitaction.sh: the value of a variable never assigned
Unset == -1

\* child_process: the code 'close' gives when a signal ended the process
Null == -2

\* lib/gitaction.js before the worker is called
NoAction == [origin |-> FALSE, script |-> FALSE, check |-> FALSE, given |-> FALSE]

GitIdle ==
    /\ action = NoAction
    /\ script = "none"
    /\ timeout = "none"
    /\ killTimer = "none"
    /\ outFragment = ""
    /\ errFragment = ""
    /\ called = 0
    /\ reported = "none"
    /\ sh = "none"
    /\ signal = "none"
    /\ stdout = "empty"
    /\ stderr = "empty"
    /\ needsUpdate = Unset
    /\ result = Unset
    /\ code = Unset
    /\ checkCode = Unset
    /\ scriptCode = Unset

\* server.js past its startup code, no periodic check run yet
Serving ==
    /\ maxItems = MaxItems
    /\ checks = 0
    /\ oldLock = "none"
    /\ started = TRUE

\* A file of the pending folder that JSON.parse rejects
Corrupt == [Absent EXCEPT !.status = "corrupt"]

\* No file in a folder
Empty == [j \in Jobs |-> Absent]

\* The state new TaskQueue(worker, options) leaves, start() called, on a
\* task folder whose id, pending and running folders are there or not and
\* where a process that ended has left the tasks of left running and the
\* files pend in the pending folder; the file system may report f failures
QueueWith(f, left, there, pend) ==
    /\ pc = [o \in Calls |-> IF o \in {T(j) : j \in left}
                                   \/ o \in {T(j) : j \in {k \in Jobs : pend[k] # Absent}}
                              THEN "done" ELSE "idle"]
    /\ arg = [o \in Ops |-> 0]
    /\ obj = [r \in Runners |-> Absent]
    /\ ret = [g \in Getters |-> NoResult]
    /\ lockedBy = NoOne
    /\ queue = <<>>
    /\ fd = FALSE
    /\ osLock = "free"
    /\ runningTasks = <<>>
    /\ initialized = FALSE
    /\ error = FALSE
    /\ startPc = "mkdirp"
    /\ deferredChecks = 0
    /\ layout = there
    /\ index = [j \in Jobs |-> IF j \in left THEN RunningRecord
                               ELSE IF pend[j] # Absent THEN NewTask ELSE Absent]
    /\ pendingB = pend
    /\ runningB = [j \in Jobs |-> IF j \in left THEN RunningRecord ELSE Absent]
    /\ faultsLeft = f
    /\ crashed = FALSE
    /\ invoked = [j \in Jobs |-> 0]
    /\ finished = [j \in Jobs |-> FALSE]
    /\ thrown = "none"
    /\ requests = <<>>

\* The same with an empty pending folder
QueueOn(f, left, there) == QueueWith(f, left, there, Empty)

\* The state new TaskQueue(worker, options) leaves, start() called, in a
\* process started on the task folder of a process that ended while the
\* tasks of left were running; the file system may report f failures
Restarted(f, left) ==
    /\ Serving
    /\ GitIdle
    /\ QueueOn(f, left, left # {})

\* The state new TaskQueue(worker, options) leaves, start() called, on an
\* empty task folder whose file system may report f failures
Constructed(f) == Restarted(f, {})

Init == Constructed(0)

InitFaulty == Constructed(MaxFaults)

\* The task a process that ended left in the running folder
Ghost == MaxJobs

\* The server's queue on a task folder where a process that ended has left
\* a pending file cut short; the file system may report failures
InitCorrupt ==
    /\ Serving
    /\ GitIdle
    /\ QueueWith(MaxFaults, {}, TRUE, [Empty EXCEPT ![Ghost] = Corrupt])

\* What options.maxItems may be given as: nothing, 0, or the server's value
Options == {[defined |-> FALSE, value |-> 0], [defined |-> TRUE, value |-> 0],
            [defined |-> TRUE, value |-> MaxItems]}

\* TaskQueue constructor: maxItems is -1 when the options give none
MaxItemsOf(o) == IF o.defined THEN o.value ELSE -1

\* new TaskQueue(worker, options) with any of the options, start() called
InitOptions ==
    /\ GitIdle
    /\ checks = 0
    /\ oldLock = "none"
    /\ started = TRUE
    /\ \E o \in Options : maxItems = MaxItemsOf(o)
    /\ QueueOn(0, {}, FALSE)

\* server.js is started on the data folder of a process that has ended,
\* with or without a task left running and a lock file left in the task
\* folder; the flock of a process ends with the process
InitRestart ==
    /\ GitIdle
    /\ maxItems = MaxItems
    /\ checks = 0
    /\ started = FALSE
    /\ oldLock \in {"none", "stale"}
    /\ \E left \in SUBSET {Ghost} : QueueOn(0, left, TRUE)

InitGhost == Restarted(MaxFaults, {Ghost})

\* ------------------------------------------------------------ helpers
Range(s) == {s[i] : i \in 1..Len(s)}

\* _.without(list, x)
Without(s, x) == SelectSeq(s, LAMBDA y : y # x)

\* The outcomes an asynchronous file operation may have: it fails when it
\* cannot succeed (a missing file or folder), and may fail otherwise.
IOResults(possible) ==
    IF ~possible THEN {FALSE}
    ELSE IF faultsLeft > 0 THEN {TRUE, FALSE} ELSE {TRUE}

Charge(possible, ok) ==
    faultsLeft' = IF possible /\ ~ok THEN faultsLeft - 1 ELSE faultsLeft

SaveNothing(folder, j, task) == folder

\* saveTaskToFolder: fs.writeFile puts the task's JSON in the folder
SaveTask(folder, j, task) == [folder EXCEPT ![j] = task]

UnlinkNothing(folder, j) == folder

\* removeTaskFromFolder: fs.unlink takes the task's file out of the folder
Unlink(folder, j) == [folder EXCEPT ![j] = Absent]

\* The invocation goes on to wait for another callback
Step(op, label) ==
    /\ pc' = [pc EXCEPT ![op] = label]
    /\ UNCHANGED <<lockedBy, queue, fd, osLock, deferredChecks, crashed, ret>>
    /\ UNCHANGED thrown

\* ---------------------------------------------------- lib/FileMutex.js
MutexLockSync(id, p) ==
    /\ requests' = requests
    /\ IF lockedBy # NoOne
       THEN /\ queue' = Append(queue, id)
            /\ pc' = [p EXCEPT ![id] = "queued"]
            /\ UNCHANGED <<fd, lockedBy, osLock>>
       ELSE /\ fd' = TRUE
            /\ lockedBy' = Id(id)
            /\ osLock' = "self"
            /\ pc' = [p EXCEPT ![id] = "mkdirp"]
            /\ queue' = queue

\* Mutex.prototype.lock, up to the call of fs.flock; p is pc as the caller
\* leaves it
MutexLock(id, p) ==
    /\ requests' = Append(requests, id)
    /\ IF lockedBy # NoOne
       THEN /\ queue' = Append(queue, id)
            /\ pc' = [p EXCEPT ![id] = "queued"]
            /\ UNCHANGED <<fd, lockedBy, osLock>>
       ELSE /\ fd' = TRUE
            /\ pc' = [p EXCEPT ![id] = "flock"]
            /\ UNCHANGED <<queue, lockedBy, osLock>>

UnlockNeverThrows(id, holder) == FALSE

\* Mutex.prototype.unlock throws unless id is the holder
UnlockThrows(id, holder) == holder # id

MutexKeepsLock(p, os) ==
    /\ pc' = p
    /\ UNCHANGED <<osLock, fd, lockedBy, queue>>

\* Mutex.prototype.unlock past its ownership test: flockSync(fd, 'un'), then
\* the head of the queue becomes the holder and its callback is scheduled
MutexUnlock(p, os) ==
    /\ osLock' = IF os = "self" THEN "free" ELSE os
    /\ fd' = fd
    /\ IF queue # <<>>
       THEN /\ lockedBy' = Id(Head(queue))
            /\ queue' = Tail(queue)
            /\ pc' = [p EXCEPT ![Head(queue)] = "timer"]
       ELSE /\ lockedBy' = NoOne
            /\ queue' = queue
            /\ pc' = p

\* Mutex.prototype.unlock throws InternalError and changes nothing; no
\* caller catches it, so the exception leaves the callback, node ends the
\* process, and the kernel drops the process's flock
Throw(holder, os) ==
    /\ thrown' = "InternalError"
    /\ crashed' = TRUE
    /\ lockedBy' = holder
    /\ osLock' = IF os = "self" THEN "free" ELSE os
    /\ UNCHANGED <<pc, queue, fd, deferredChecks, ret>>

\* ------------------------------------- lib/filequeue.js: final callbacks
\* push, the callback that ends the waterfall
PushFinal(op, e, holder, os) ==
    IF UnlockThrows(op, holder)
    THEN Throw(holder, os)
    ELSE /\ MutexUnlock([pc EXCEPT ![op] = IF e = "ok" THEN "done" ELSE "failed"], os)
         /\ deferredChecks' = IF e = "ok" THEN deferredChecks + 1 ELSE deferredChecks
         /\ UNCHANGED <<crashed, ret, thrown>>

\* checkNextTask, the callback that ends the waterfall
CheckFinal(op, e, holder, os) ==
    IF UnlockThrows(op, holder)
    THEN Throw(holder, os)
    ELSE /\ MutexUnlock([pc EXCEPT ![op] = IF e = "ok" THEN "deferRun" ELSE "idle"], os)
         /\ UNCHANGED <<deferredChecks, crashed, ret, thrown>>

RunningObject(j) ==
    IF \E r \in Range(runningTasks) : arg[R(r)] = j
    THEN CHOOSE r \in Range(runningTasks) : arg[R(r)] = j
    ELSE 0

\* get: JSON.parse(data) builds the task handed to the callback, an object
\* no part of the queue refers to
ParsedObject(j) == 0

\* get, the callback that ends the waterfall
GetFinal(op, e, task, holder, os) ==
    IF UnlockThrows(op, holder)
    THEN Throw(holder, os)
    ELSE /\ MutexUnlock([pc EXCEPT ![op] = "done"], os)
         /\ ret' = [ret EXCEPT ![Num(op)] =
                CASE e = "not found" -> [NoResult EXCEPT !.kind = "undefined"]
                  [] e = "ok" -> [kind |-> "task", task |-> task,
                                  alias |-> ParsedObject(arg[op])]
                  [] OTHER -> [NoResult EXCEPT !.kind = "error"]]
         /\ UNCHANGED <<deferredChecks, crashed, thrown>>

Final(op, e, task, holder, os) ==
    CASE Kind(op) = "task" -> PushFinal(op, e, holder, os)
      [] Kind(op) = "runner" -> CheckFinal(op, e, holder, os)
      [] OTHER -> GetFinal(op, e, task, holder, os)

\* The first asynchronous call each waterfall makes once it is ready
FirstStep(op) ==
    CASE Kind(op) = "task" -> "saveId"
      [] Kind(op) = "runner" -> "readdir"
      [] OTHER -> "exists"

\* An invocation is in the locked section from the turn the callback it gave
\* to lock runs to the turn its final callback calls unlock
SectionPcs == {"mkdirp", "rdrunning", "saveId", "savePending", "readdir",
               "readFile", "saveRunning", "rmPending", "exists"}
InSection(op) == pc[op] \in SectionPcs

\* TaskQueue.prototype.whenReady as TaskQueue.prototype.lock calls it
WhenReady(op, holder, os) ==
    IF initialized
    THEN /\ pc' = [pc EXCEPT ![op] = FirstStep(op)]
         /\ lockedBy' = holder
         /\ osLock' = os
         /\ UNCHANGED <<queue, fd, deferredChecks, crashed, ret, thrown>>
    ELSE IF error
    THEN Final(op, "err", Absent, holder, os)
    ELSE /\ pc' = [pc EXCEPT ![op] = "mkdirp"]
         /\ lockedBy' = holder
         /\ osLock' = os
         /\ UNCHANGED <<queue, fd, deferredChecks, crashed, ret, thrown>>

\* fs.flock(fd, 'ex') calls back: it blocks while another process holds the
\* flock; the request is queued on an error and granted otherwise
FlockDone(op) ==
    /\ ~crashed
    /\ pc[op] = "flock"
    /\ \E ok \in IOResults(TRUE) :
        /\ ok => osLock # "ext"
        /\ requests' = IF ok THEN Without(requests, op) ELSE requests
        /\ IF ok
           THEN WhenReady(op, op, "self")
           ELSE /\ queue' = Append(queue, op)
                /\ pc' = [pc EXCEPT ![op] = "queued"]
                /\ UNCHANGED <<lockedBy, fd, osLock, deferredChecks, crashed, ret>>
                /\ UNCHANGED thrown
        /\ Charge(TRUE, ok)
    /\ UNCHANGED <<arg, obj, runningTasks, initialized, error, startPc>>
    /\ UNCHANGED <<diskVars, invoked, finished>>
    /\ UNCHANGED hostVars

\* The callback unlock scheduled with setTimeout runs
TimerFire(op) ==
    /\ ~crashed
    /\ pc[op] = "timer"
    /\ requests' = Without(requests, op)
    /\ WhenReady(op, lockedBy, osLock)
    /\ UNCHANGED <<arg, obj, runningTasks, initialized, error, startPc>>
    /\ UNCHANGED <<diskVars, faultsLeft, invoked, finished>>
    /\ UNCHANGED hostVars

\* whenReady, the callback of async.each over mkdirp
MkdirpDone(op) ==
    /\ ~crashed
    /\ pc[op] = "mkdirp"
    /\ \E ok \in IOResults(TRUE) :
        /\ initialized' = TRUE
        /\ error' = ~ok
        /\ layout' = (layout \/ ok)
        /\ IF ok
           THEN Step(op, "rdrunning")
           ELSE Final(op, "err", Absent, lockedBy, osLock)
        /\ Charge(TRUE, ok)
    /\ UNCHANGED <<arg, obj, runningTasks, startPc, index, pendingB, runningB>>
    /\ UNCHANGED <<invoked, finished, requests>>
    /\ UNCHANGED hostVars

\* whenReady, the callback of fs.readdir on the running folder
ReaddirRunningDone(op) ==
    /\ ~crashed
    /\ pc[op] = "rdrunning"
    /\ \E ok \in IOResults(layout) :
        /\ IF ok
           THEN Step(op, FirstStep(op))
           ELSE Final(op, "err", Absent, lockedBy, osLock)
        /\ Charge(layout, ok)
    /\ UNCHANGED <<arg, obj, runningTasks, initialized, error, startPc>>
    /\ UNCHANGED <<diskVars, invoked, finished, requests>>
    /\ UNCHANGED hostVars

\* ------------------------------------------- checkNextTask, its first part
FreeRunners == {r \in Runners : pc[R(r)] = "idle" /\ r \notin Range(runningTasks)}
NewRunner == CHOOSE r \in FreeRunners : \A q \in FreeRunners : r <= q

CapacityNeverReached == FALSE

\* checkNextTask returns at once when maxItems tasks are running
CapacityReached == maxItems > 0 /\ Len(runningTasks) >= maxItems

\* TaskQueue.prototype.checkNextTask up to the call of Mutex.lock
CheckNextTask(p) ==
    IF CapacityReached
    THEN /\ pc' = p
         /\ UNCHANGED <<queue, fd, lockedBy, osLock, requests>>
    ELSE /\ FreeRunners # {}
         /\ MutexLock(R(NewRunner), p)

\* A checkNextTask call scheduled by _.defer runs
DeferredCheck ==
    /\ ~crashed
    /\ deferredChecks > 0
    /\ deferredChecks' = deferredChecks - 1
    /\ CheckNextTask(pc)
    /\ UNCHANGED <<crashed, ret, arg, obj, runningTasks, initialized, error>>
    /\ UNCHANGED <<startPc, diskVars, faultsLeft, invoked, finished, thrown>>
    /\ UNCHANGED hostVars

\* ------------------------------------------------------------- start
\* start: whenReady's mkdirp calls back
StartMkdirpDone ==
    /\ ~crashed
    /\ startPc = "mkdirp"
    /\ \E ok \in IOResults(TRUE) :
        /\ initialized' = TRUE
        /\ error' = ~ok
        /\ layout' = (layout \/ ok)
        /\ startPc' = IF ok THEN "rdrunning" ELSE "done"
        /\ Charge(TRUE, ok)
    /\ UNCHANGED <<ctlVars, arg, obj, runningTasks, index, pendingB, runningB>>
    /\ UNCHANGED <<invoked, finished, thrown, requests>>
    /\ UNCHANGED hostVars

StartReaddirRequeues ==
    /\ ~crashed
    /\ startPc = "rdrunning"
    /\ startPc' = "done"
    /\ pendingB' = [j \in Jobs |-> IF runningB[j] # Absent
                                    THEN NewTask ELSE pendingB[j]]
    /\ runningB' = [j \in Jobs |-> Absent]
    /\ CheckNextTask(pc)
    /\ UNCHANGED <<deferredChecks, crashed, ret, arg, obj, runningTasks>>
    /\ UNCHANGED <<initialized, error, layout, index, faultsLeft>>
    /\ UNCHANGED <<invoked, finished, thrown>>
    /\ UNCHANGED hostVars

\* start: whenReady's readdir calls back, and start calls checkNextTask
StartReaddirDone ==
    /\ ~crashed
    /\ startPc = "rdrunning"
    /\ startPc' = "done"
    /\ \E ok \in IOResults(layout) :
        /\ IF ok
           THEN CheckNextTask(pc)
           ELSE UNCHANGED <<pc, queue, fd, lockedBy, osLock, requests>>
        /\ Charge(layout, ok)
    /\ UNCHANGED <<deferredChecks, crashed, ret, arg, obj, runningTasks>>
    /\ UNCHANGED <<initialized, error, diskVars, invoked, finished, thrown>>
    /\ UNCHANGED hostVars

\* -------------------------------------------------------------- push
NewJobs == {j \in Jobs : pc[T(j)] = "idle"}
NewJob == CHOOSE j \in NewJobs : \A k \in NewJobs : j <= k

PushLocksFirst(present) ==
    /\ ~crashed
    /\ NewJobs # {}
    /\ thrown' = IF present THEN "none" ELSE "ParamError"
    /\ arg' = [arg EXCEPT ![T(NewJob)] = NewJob]
    /\ MutexLock(T(NewJob), pc)
    /\ UNCHANGED <<deferredChecks, crashed, ret, obj, runningTasks>>
    /\ UNCHANGED <<initialized, error, startPc, diskVars, faultsLeft, invoked, finished>>
    /\ UNCHANGED hostVars

\* push(params): params is absent and ParamError is thrown, or the task is
\* created and the waterfall asks for the lock
Push(present) ==
    /\ ~crashed
    /\ IF ~present
       THEN /\ thrown' = "ParamError"
            /\ UNCHANGED <<pc, arg, queue, fd, lockedBy, osLock, requests>>
       ELSE /\ NewJobs # {}
            /\ thrown' = "none"
            /\ arg' = [arg EXCEPT ![T(NewJob)] = NewJob]
            /\ MutexLock(T(NewJob), pc)
    /\ UNCHANGED <<deferredChecks, crashed, ret, obj, runningTasks>>
    /\ UNCHANGED <<initialized, error, startPc, diskVars, faultsLeft, invoked, finished>>
    /\ UNCHANGED hostVars

\* push: fs.writeFile to the id folder calls back
PushSaveId(j) ==
    /\ ~crashed
    /\ pc[T(j)] = "saveId"
    /\ \E ok \in IOResults(layout) :
        /\ index' = IF ok THEN SaveTask(index, j, NewTask) ELSE index
        /\ IF ok
           THEN Step(T(j), "savePending")
           ELSE Final(T(j), "err", Absent, lockedBy, osLock)
        /\ Charge(layout, ok)
    /\ UNCHANGED <<arg, obj, runningTasks, initialized, error, startPc>>
    /\ UNCHANGED <<layout, pendingB, runningB, invoked, finished, requests>>
    /\ UNCHANGED hostVars

\* push: fs.writeFile to the pending folder calls back
PushSavePending(j) ==
    /\ ~crashed
    /\ pc[T(j)] = "savePending"
    /\ \E ok \in IOResults(layout) :
        /\ pendingB' = IF ok THEN SaveTask(pendingB, j, NewTask) ELSE pendingB
        /\ Final(T(j), IF ok THEN "ok" ELSE "err", Absent, lockedBy, osLock)
        /\ Charge(layout, ok)
    /\ UNCHANGED <<arg, obj, runningTasks, initialized, error, startPc>>
    /\ UNCHANGED <<layout, index, runningB, invoked, finished, requests>>
    /\ UNCHANGED hostVars

\* ------------------------------------------ checkNextTask, the waterfall
PendingFiles == {j \in Jobs : pendingB[j] # Absent}

\* checkNextTask: fs.readdir on the pending folder calls back; _.find takes
\* the first .json file of the listing, whose order the file system chooses
CheckReaddir(r) ==
    /\ ~crashed
    /\ pc[R(r)] = "readdir"
    /\ \E ok \in IOResults(layout) :
        /\ IF ~ok
           THEN /\ Final(R(r), "err", Absent, lockedBy, osLock)
                /\ arg' = arg
           ELSE IF PendingFiles = {}
           THEN /\ Final(R(r), "all run", Absent, lockedBy, osLock)
                /\ arg' = arg
           ELSE \E j \in PendingFiles :
                /\ arg' = [arg EXCEPT ![R(r)] = j]
                /\ Step(R(r), "readFile")
        /\ Charge(layout, ok)
    /\ UNCHANGED <<obj, runningTasks, initialized, error, startPc>>
    /\ UNCHANGED <<diskVars, invoked, finished, requests>>
    /\ UNCHANGED hostVars

\* checkNextTask: fs.readFile calls back; the task is parsed, pushed to
\* runningTasks, set to running, and its save to the id folder is asked for;
\* an error of the read or of JSON.parse goes to the final callback
CheckReadFile(r) ==
    /\ ~crashed
    /\ pc[R(r)] = "readFile"
    /\ LET j == arg[R(r)]
           there == layout /\ pendingB[j] # Absent
       IN \E ok \in IOResults(there) :
            /\ IF ok /\ pendingB[j] # Corrupt
               THEN /\ runningTasks' = Append(runningTasks, r)
                    /\ obj' = [obj EXCEPT ![r] = [pendingB[j] EXCEPT !.status = "running"]]
                    /\ Step(R(r), "saveId")
               ELSE /\ Final(R(r), "err", Absent, lockedBy, osLock)
                    /\ UNCHANGED <<runningTasks, obj>>
            /\ arg' = IF (ok /\ pendingB[j] # Corrupt) \/ UnlockThrows(R(r), lockedBy)
                      THEN arg ELSE [arg EXCEPT ![R(r)] = 0]
            /\ Charge(there, ok)
    /\ UNCHANGED <<initialized, error, startPc>>
    /\ UNCHANGED <<diskVars, invoked, finished, requests>>
    /\ UNCHANGED hostVars

\* checkNextTask: fs.writeFile to the id folder calls back
CheckSaveId(r) ==
    /\ ~crashed
    /\ pc[R(r)] = "saveId"
    /\ LET j == arg[R(r)]
       IN \E ok \in IOResults(layout) :
            /\ index' = IF ok THEN SaveTask(index, j, obj[r]) ELSE index
            /\ IF ok
               THEN Step(R(r), "saveRunning")
               ELSE Final(R(r), "err", Absent, lockedBy, osLock)
            /\ Charge(layout, ok)
    /\ UNCHANGED <<arg, obj, runningTasks, initialized, error, startPc>>
    /\ UNCHANGED <<layout, pendingB, runningB, invoked, finished, requests>>
    /\ UNCHANGED hostVars

\* checkNextTask: fs.writeFile to the running folder calls back
CheckSaveRunning(r) ==
    /\ ~crashed
    /\ pc[R(r)] = "saveRunning"
    /\ LET j == arg[R(r)]
       IN \E ok \in IOResults(layout) :
            /\ runningB' = IF ok THEN SaveTask(runningB, j, obj[r]) ELSE runningB
            /\ IF ok
               THEN Step(R(r), "rmPending")
               ELSE Final(R(r), "err", Absent, lockedBy, osLock)
            /\ Charge(layout, ok)
    /\ UNCHANGED <<arg, obj, runningTasks, initialized, error, startPc>>
    /\ UNCHANGED <<layout, index, pendingB, invoked, finished, requests>>
    /\ UNCHANGED hostVars

\* checkNextTask: fs.unlink in the pending folder calls back, and the final
\* callback schedules runTask
CheckRmPending(r) ==
    /\ ~crashed
    /\ pc[R(r)] = "rmPending"
    /\ LET j == arg[R(r)]
           there == layout /\ pendingB[j] # Absent
       IN \E ok \in IOResults(there) :
            /\ pendingB' = IF ok THEN Unlink(pendingB, j) ELSE pendingB
            /\ Final(R(r), IF ok THEN "ok" ELSE "err", Absent, lockedBy, osLock)
            /\ Charge(there, ok)
    /\ UNCHANGED <<arg, obj, runningTasks, initialized, error, startPc>>
    /\ UNCHANGED <<layout, index, runningB, invoked, finished, requests>>
    /\ UNCHANGED hostVars

\* ------------------------------------------------------------ runTask
\* The deferred runTask runs and calls the worker
RunTask(r) ==
    /\ ~crashed
    /\ pc[R(r)] = "deferRun"
    /\ invoked' = [invoked EXCEPT ![arg[R(r)]] = @ + 1]
    /\ Step(R(r), "working")
    /\ UNCHANGED <<arg, obj, runningTasks, initialized, error, startPc>>
    /\ UNCHANGED <<diskVars, faultsLeft, finished, requests>>
    /\ UNCHANGED hostVars

CompletedUndated(task, out) ==
    IF out \in {"ok", "okResult"}
    THEN [task EXCEPT !.status = "success",
                      !.result = (out = "okResult"),
                      !.dateFinished = TRUE]
    ELSE [task EXCEPT !.status = "failure",
                      !.error = out,
                      !.errorCode = 500]

CompletedAsInternal(task, out) ==
    IF out \in {"ok", "okResult"}
    THEN [task EXCEPT !.status = "success",
                      !.result = (out = "okResult"),
                      !.dateFinished = TRUE]
    ELSE [task EXCEPT !.status = "failure",
                      !.error = out,
                      !.errorCode = 500,
                      !.dateFinished = TRUE]

\* The task as the worker's callback leaves it; error is err.toString(),
\* kept here as the kind of the error
Completed(task, out) ==
    IF out \in {"ok", "okResult"}
    THEN [task EXCEPT !.status = "success",
                      !.result = (out = "okResult"),
                      !.dateFinished = TRUE]
    ELSE [task EXCEPT !.status = "failure",
                      !.error = out,
                      !.errorCode = CASE out = "ParamError" -> 400
                                      [] out = "ProxyError" -> 503
                                      [] OTHER -> 500,
                      !.dateFinished = TRUE]

\* The worker calls back: the task gets its final status, leaves
\* runningTasks, and its save to the id folder is asked for
WorkerDone(r, out) ==
    /\ ~crashed
    /\ pc[R(r)] = "working"
    /\ obj' = [obj EXCEPT ![r] = Completed(obj[r], out)]
    /\ runningTasks' = Without(runningTasks, r)
    /\ Step(R(r), "finSaveId")
    /\ UNCHANGED <<arg, initialized, error, startPc>>
    /\ UNCHANGED <<diskVars, faultsLeft, invoked, finished, requests>>
    /\ UNCHANGED hostVars

RunSaveIdStops(r) ==
    /\ ~crashed
    /\ pc[R(r)] = "finSaveId"
    /\ LET j == arg[R(r)]
       IN \E ok \in IOResults(layout) :
            /\ index' = IF ok THEN SaveTask(index, j, obj[r]) ELSE index
            /\ Charge(layout, ok)
            /\ Step(R(r), IF ok THEN "finRmRunning" ELSE "idle")
    /\ UNCHANGED <<arg, obj, runningTasks, initialized, error, startPc>>
    /\ UNCHANGED <<layout, pendingB, runningB, invoked, finished, requests>>
    /\ UNCHANGED hostVars

\* runTask: fs.writeFile to the id folder calls back; an error is logged
RunSaveId(r) ==
    /\ ~crashed
    /\ pc[R(r)] = "finSaveId"
    /\ LET j == arg[R(r)]
       IN \E ok \in IOResults(layout) :
            /\ index' = IF ok THEN SaveTask(index, j, obj[r]) ELSE index
            /\ Charge(layout, ok)
    /\ Step(R(r), "finRmRunning")
    /\ UNCHANGED <<arg, obj, runningTasks, initialized, error, startPc>>
    /\ UNCHANGED <<layout, pendingB, runningB, invoked, finished, requests>>
    /\ UNCHANGED hostVars

RunRmRunningChecksNothing(r) ==
    /\ ~crashed
    /\ pc[R(r)] = "finRmRunning"
    /\ LET j == arg[R(r)]
           there == layout /\ runningB[j] # Absent
       IN /\ \E ok \in IOResults(there) :
               /\ runningB' = IF ok THEN Unlink(runningB, j) ELSE runningB
               /\ Charge(there, ok)
          /\ finished' = [finished EXCEPT ![j] = TRUE]
    /\ deferredChecks' = deferredChecks
    /\ pc' = [pc EXCEPT ![R(r)] = "idle"]
    /\ arg' = [arg EXCEPT ![R(r)] = 0]
    /\ obj' = [obj EXCEPT ![r] = Absent]
    /\ UNCHANGED <<lockedBy, queue, fd, osLock, crashed, ret>>
    /\ UNCHANGED <<runningTasks, initialized, error, startPc>>
    /\ UNCHANGED <<layout, index, pendingB, invoked, thrown, requests>>
    /\ UNCHANGED hostVars

\* runTask: fs.unlink in the running folder calls back; an error is logged,
\* and checkNextTask is deferred
RunRmRunning(r) ==
    /\ ~crashed
    /\ pc[R(r)] = "finRmRunning"
    /\ LET j == arg[R(r)]
           there == layout /\ runningB[j] # Absent
       IN /\ \E ok \in IOResults(there) :
               /\ runningB' = IF ok THEN Unlink(runningB, j) ELSE runningB
               /\ Charge(there, ok)
          /\ finished' = [finished EXCEPT ![j] = TRUE]
    /\ deferredChecks' = deferredChecks + 1
    /\ pc' = [pc EXCEPT ![R(r)] = "idle"]
    /\ arg' = [arg EXCEPT ![R(r)] = 0]
    /\ obj' = [obj EXCEPT ![r] = Absent]
    /\ UNCHANGED <<lockedBy, queue, fd, osLock, crashed, ret>>
    /\ UNCHANGED <<runningTasks, initialized, error, startPc>>
    /\ UNCHANGED <<layout, index, pendingB, invoked, thrown, requests>>
    /\ UNCHANGED hostVars

\* --------------------------------------------------------------- get
\* get(taskId): the waterfall asks for the lock
Get(g, id) ==
    /\ ~crashed
    /\ pc[G(g)] = "idle"
    /\ arg' = [arg EXCEPT ![G(g)] = id]
    /\ ret' = ret
    /\ MutexLock(G(g), pc)
    /\ UNCHANGED <<deferredChecks, crashed, obj, runningTasks>>
    /\ UNCHANGED <<initialized, error, startPc, diskVars, faultsLeft, invoked>>
    /\ UNCHANGED <<finished, thrown>>
    /\ UNCHANGED hostVars

\* get: fs.exists calls back
GetExists(g) ==
    /\ ~crashed
    /\ pc[G(g)] = "exists"
    /\ IF layout /\ index[arg[G(g)]] # Absent
       THEN Step(G(g), "readFile")
       ELSE Final(G(g), "not found", Absent, lockedBy, osLock)
    /\ UNCHANGED <<arg, obj, runningTasks, initialized, error, startPc>>
    /\ UNCHANGED <<diskVars, faultsLeft, invoked, finished, requests>>
    /\ UNCHANGED hostVars

\* get: fs.readFile calls back and the record is parsed
GetReadFile(g) ==
    /\ ~crashed
    /\ pc[G(g)] = "readFile"
    /\ LET there == layout /\ index[arg[G(g)]] # Absent
       IN \E ok \in IOResults(there) :
            /\ Final(G(g), IF ok THEN "ok" ELSE "err", index[arg[G(g)]],
                     lockedBy, osLock)
            /\ Charge(there, ok)
    /\ UNCHANGED <<arg, obj, runningTasks, initialized, error, startPc>>
    /\ UNCHANGED <<diskVars, invoked, finished, requests>>
    /\ UNCHANGED hostVars

\* The caller of get changes the task its callback received
Mutate(g) ==
    /\ ~crashed
    /\ pc[G(g)] = "done"
    /\ ret[g].kind = "task"
    /\ ret[g].task.status # "mutated"
    /\ ret' = [ret EXCEPT ![g].task.status = "mutated"]
    /\ obj' = IF ret[g].alias = 0
              THEN obj
              ELSE [obj EXCEPT ![ret[g].alias].status = "mutated"]
    /\ UNCHANGED <<pc, arg, lockedBy, queue, fd, osLock, runningTasks>>
    /\ UNCHANGED <<initialized, error, startPc, deferredChecks, diskVars>>
    /\ UNCHANGED <<faultsLeft, crashed, invoked, finished, thrown, requests>>
    /\ UNCHANGED hostVars

\* ------------------------------------------------- a re-entrant caller
\* The holder calls Mutex.lock again with its own identity, from inside its
\* locked section
Reenter(op) ==
    /\ ~crashed
    /\ InSection(op)
    /\ lockedBy = op
    /\ pc[Again(op)] = "idle"
    /\ MutexLock(Again(op), pc)
    /\ UNCHANGED <<deferredChecks, crashed, ret, arg, obj, runningTasks>>
    /\ UNCHANGED <<initialized, error, startPc, diskVars, faultsLeft, invoked>>
    /\ UNCHANGED <<finished, thrown>>
    /\ UNCHANGED hostVars

\* The callback of the second call runs, and releases the lock it was given
AgainTimerFire(op) ==
    /\ ~crashed
    /\ pc[Again(op)] = "timer"
    /\ requests' = Without(requests, Again(op))
    /\ IF UnlockThrows(op, lockedBy)
       THEN Throw(lockedBy, osLock)
       ELSE /\ MutexUnlock([pc EXCEPT ![Again(op)] = "idle"], osLock)
            /\ UNCHANGED <<deferredChecks, crashed, ret, thrown>>
    /\ UNCHANGED <<arg, obj, runningTasks, initialized, error, startPc>>
    /\ UNCHANGED <<diskVars, faultsLeft, invoked, finished>>
    /\ UNCHANGED hostVars

\* ------------------------------------------- another process on the store
\* Another process takes or drops the flock on the lock file
External ==
    /\ osLock \in {"free", "ext"}
    /\ osLock' = IF osLock = "free" THEN "ext" ELSE "free"
    /\ UNCHANGED <<pc, arg, obj, ret, lockedBy, queue, fd, runningTasks>>
    /\ UNCHANGED <<initialized, error, startPc, deferredChecks, diskVars>>
    /\ UNCHANGED <<faultsLeft, crashed, invoked, finished, thrown, requests>>
    /\ UNCHANGED hostVars

\* The caller has seen what the call threw or what get's callback received
Observing == thrown = "ParamError" \/ \E g \in Getters : pc[G(g)] = "done"

Return ==
    /\ Observing
    /\ thrown' = IF thrown = "ParamError" THEN "none" ELSE thrown
    /\ pc' = [o \in Calls |-> IF Kind(o) = "get" /\ pc[o] = "done" THEN "idle" ELSE pc[o]]
    /\ arg' = [o \in Ops |-> IF Kind(o) = "get" /\ pc[o] = "done" THEN 0 ELSE arg[o]]
    /\ ret' = [g \in Getters |-> NoResult]
    /\ UNCHANGED <<obj, lockedBy, queue, fd, osLock, runningTasks, initialized>>
    /\ UNCHANGED <<error, startPc, deferredChecks, diskVars, faultsLeft, crashed>>
    /\ UNCHANGED <<invoked, finished, requests>>
    /\ UNCHANGED hostVars

\* ------------------------------------------------------------ server.js
KeepOldLock ==
    /\ ~started
    /\ started' = TRUE
    /\ UNCHANGED <<queueVars, crashed, thrown, maxItems, checks, oldLock, gitVars, shVars>>

\* The startup code of the server, not in 'scheduled' mode: the lock file
\* found in the task folder is removed, then the queue is created
RemoveOldLock ==
    /\ ~started
    /\ started' = TRUE
    /\ oldLock' = IF layout /\ oldLock = "stale" THEN "removed" ELSE oldLock
    /\ UNCHANGED <<queueVars, crashed, thrown, maxItems, checks, gitVars, shVars>>

NoRunningTasks == Len(<<>>)

\* TaskQueue.prototype.getNbRunningTasks
NbRunningTasks == Len(runningTasks)

\* The ids uuid.v1() gives to the tasks of one periodic check
HookJobs == {j \in NewJobs : Cardinality({k \in NewJobs : k < j}) < PeriodicHooks}

RECURSIVE Ascending(_)
Ascending(S) ==
    IF S = {} THEN <<>>
    ELSE LET m == CHOOSE j \in S : \A k \in S : j <= k
         IN <<T(m)>> \o Ascending(S \ {m})

\* runPeriodicCheck: nothing when a task is running, otherwise one push for
\* each periodic hook, all in the same turn: each push asks for the lock
PeriodicCheck ==
    /\ ~crashed
    /\ started
    /\ checks < MaxChecks
    /\ checks' = checks + 1
    /\ IF NbRunningTasks > 0
       THEN UNCHANGED <<pc, arg, queue, fd, lockedBy, osLock, requests, thrown>>
       ELSE /\ Cardinality(NewJobs) >= PeriodicHooks
            /\ thrown' = "none"
            /\ arg' = [o \in Ops |-> IF o \in Range(Ascending(HookJobs))
                                     THEN Num(o) ELSE arg[o]]
            /\ requests' = requests \o Ascending(HookJobs)
            /\ IF lockedBy # NoOne
               THEN /\ queue' = queue \o Ascending(HookJobs)
                    /\ pc' = [o \in Calls |-> IF o \in Range(Ascending(HookJobs))
                                              THEN "queued" ELSE pc[o]]
                    /\ UNCHANGED <<fd, lockedBy, osLock>>
               ELSE /\ fd' = TRUE
                    /\ pc' = [o \in Calls |-> IF o \in Range(Ascending(HookJobs))
                                              THEN "flock" ELSE pc[o]]
                    /\ UNCHANGED <<queue, lockedBy, osLock>>
    /\ UNCHANGED <<deferredChecks, crashed, ret, obj, runningTasks>>
    /\ UNCHANGED <<initialized, error, startPc, diskVars, faultsLeft, invoked, finished>>
    /\ UNCHANGED <<maxItems, oldLock, started, gitVars, shVars>>

\* ---------------------------------------------------- lib/gitaction.js
\* The actions a hook may carry
Actions == [origin : BOOLEAN, script : BOOLEAN, check : BOOLEAN, given : {TRUE}]

\* The exit statuses a check script or an action script ends with
Codes == {0, 1, 42}

\* What a process may have added to one of its output streams: nothing,
\* text that ends with a newline, text that ends within a line
Written(pipe) == {pipe, "lines", "part"}

\* The worker is called: ParamError without origin or script, or the shell
\* script is spawned and the timer armed
GitAction(a) ==
    /\ ~crashed
    /\ ~action.given
    /\ action' = a
    /\ IF ~a.origin \/ ~a.script
       THEN /\ called' = called + 1
            /\ reported' = "ParamError"
            /\ UNCHANGED <<script, timeout, outFragment, errFragment, sh>>
       ELSE /\ script' = "child"
            /\ sh' = "prepare"
            /\ timeout' = "armed"
            /\ outFragment' = ""
            /\ errFragment' = ""
            /\ UNCHANGED <<called, reported>>
    /\ UNCHANGED <<killTimer, signal, stdout, stderr, needsUpdate, result>>
    /\ UNCHANGED <<code, checkCode, scriptCode>>
    /\ UNCHANGED <<queueVars, crashed, thrown, serverVars>>

\* The fragment log(type) keeps of a chunk: the text after its last newline
Fragment(pipe) == IF pipe = "lines" THEN "" ELSE "text"

\* script.stdout.on('data', log('stdout'))
LogStdout ==
    /\ ~crashed
    /\ script = "child"
    /\ stdout # "empty"
    /\ outFragment' = Fragment(stdout)
    /\ stdout' = "empty"
    /\ UNCHANGED <<action, script, timeout, killTimer, errFragment, called, reported>>
    /\ UNCHANGED <<sh, signal, stderr, needsUpdate, result, code, checkCode, scriptCode>>
    /\ UNCHANGED <<queueVars, crashed, thrown, serverVars>>

\* script.stderr.on('data', log('stderr'))
LogStderr ==
    /\ ~crashed
    /\ script = "child"
    /\ stderr # "empty"
    /\ errFragment' = Fragment(stderr)
    /\ stderr' = "empty"
    /\ UNCHANGED <<action, script, timeout, killTimer, outFragment, called, reported>>
    /\ UNCHANGED <<sh, signal, stdout, needsUpdate, result, code, checkCode, scriptCode>>
    /\ UNCHANGED <<queueVars, crashed, thrown, serverVars>>

\* The timer set at the spawn fires: SIGTERM, and SIGKILL in ten seconds
TimeoutFire ==
    /\ ~crashed
    /\ timeout = "armed"
    /\ timeout' = "fired"
    /\ IF script = "child"
       THEN /\ signal' = IF sh \in {"exited", "killed"} THEN signal ELSE "SIGTERM"
            /\ killTimer' = "armed"
       ELSE UNCHANGED <<signal, killTimer>>
    /\ UNCHANGED <<action, script, outFragment, errFragment, called, reported>>
    /\ UNCHANGED <<sh, stdout, stderr, needsUpdate, result, code, checkCode, scriptCode>>
    /\ UNCHANGED <<queueVars, crashed, thrown, serverVars>>

\* The ten seconds timer fires
KillTimerFire ==
    /\ ~crashed
    /\ killTimer = "armed"
    /\ killTimer' = "fired"
    /\ signal' = IF script = "child" /\ sh \notin {"exited", "killed"}
                 THEN "SIGKILL" ELSE signal
    /\ UNCHANGED <<action, script, timeout, outFragment, errFragment, called, reported>>
    /\ UNCHANGED <<sh, stdout, stderr, needsUpdate, result, code, checkCode, scriptCode>>
    /\ UNCHANGED <<queueVars, crashed, thrown, serverVars>>

\* script.on('close'): what callback receives for the code
CloseReports(c) ==
    CASE c = Null -> "InternalError"
      [] c # 0 -> "InternalError"
      [] OTHER -> "ok"

\* script.on('close'): the streams have ended and the process has exited.
\* outFragment is null when the rest of stderr is logged, and
\* outFragment.replace raises TypeError out of the listener
Close ==
    /\ ~crashed
    /\ script = "child"
    /\ sh \in {"exited", "killed"}
    /\ stdout = "empty" /\ stderr = "empty"
    /\ timeout' = IF timeout = "armed" THEN "cleared" ELSE timeout
    /\ script' = "null"
    /\ outFragment' = IF outFragment # "" THEN "null" ELSE outFragment
    /\ IF errFragment # "" /\ outFragment # ""
       THEN /\ thrown' = "TypeError"
            /\ crashed' = TRUE
            /\ UNCHANGED <<errFragment, called, reported>>
       ELSE /\ errFragment' = IF errFragment # "" THEN "null" ELSE errFragment
            /\ called' = called + 1
            /\ reported' = CloseReports(code)
            /\ UNCHANGED <<crashed, thrown>>
    /\ UNCHANGED <<action, killTimer, shVars, queueVars, serverVars>>

\* ---------------------------------------------------- lib/gitaction.sh
Running == {"prepare", "check", "script", "exit"}

\* Lines 36 to 113: the repository is cloned or updated under set -e; a
\* command that fails ends the shell with its status
ShPrepare ==
    /\ sh = "prepare"
    /\ \E ok \in BOOLEAN, o \in Written(stdout), e \in Written(stderr) :
         /\ stderr' = e
         /\ IF ok
            THEN /\ sh' = "check"
                 /\ stdout' = "lines"
                 /\ code' = code
            ELSE /\ sh' = "exited"
                 /\ stdout' = IF o = "empty" THEN "lines" ELSE o
                 /\ code' = 1
    /\ UNCHANGED <<signal, needsUpdate, result, checkCode, scriptCode>>
    /\ UNCHANGED <<queueVars, crashed, thrown, serverVars, gitVars>>

NeedsUpdateAlways(configured, c) == 42

\* Lines 115 to 122: needsUpdate is 42, or the status of the check script
NeedsUpdate(configured, c) == IF configured THEN c ELSE 42

ShCheck ==
    /\ sh = "check"
    /\ sh' = "script"
    /\ IF action.check
       THEN \E c \in Codes, e \in Written(stderr) :
              /\ checkCode' = c
              /\ needsUpdate' = NeedsUpdate(TRUE, c)
              /\ stdout' = "lines"
              /\ stderr' = e
       ELSE /\ needsUpdate' = NeedsUpdate(FALSE, 0)
            /\ UNCHANGED <<checkCode, stdout, stderr>>
    /\ UNCHANGED <<signal, result, code, scriptCode>>
    /\ UNCHANGED <<queueVars, crashed, thrown, serverVars, gitVars>>

\* Lines 124 to 132: the action script runs when needsUpdate is 42
ShScript ==
    /\ sh = "script"
    /\ sh' = "exit"
    /\ stdout' = "lines"
    /\ IF needsUpdate = 42
       THEN \E c \in Codes, e \in Written(stderr) :
              /\ scriptCode' = c
              /\ result' = c
              /\ stderr' = e
       ELSE UNCHANGED <<scriptCode, result, stderr>>
    /\ UNCHANGED <<signal, needsUpdate, code, checkCode>>
    /\ UNCHANGED <<queueVars, crashed, thrown, serverVars, gitVars>>

\* Line 136: exit ${result}; without result, exit gives the status of the
\* command before it, cd ../../..
ExitStatus(r) == IF r = Unset THEN 0 ELSE r

\* Lines 134 to 136
ShExit ==
    /\ sh = "exit"
    /\ sh' = "exited"
    /\ code' = ExitStatus(result)
    /\ UNCHANGED <<signal, stdout, stderr, needsUpdate, result, checkCode, scriptCode>>
    /\ UNCHANGED <<queueVars, crashed, thrown, serverVars, gitVars>>

\* The signal ends the shell, whatever the commands it ran had written
Killed ==
    /\ sh \in Running
    /\ signal # "none"
    /\ sh' = "killed"
    /\ code' = Null
    /\ \E o \in Written(stdout), e \in Written(stderr) :
         stdout' = o /\ stderr' = e
    /\ UNCHANGED <<signal, needsUpdate, result, checkCode, scriptCode>>
    /\ UNCHANGED <<queueVars, crashed, thrown, serverVars, gitVars>>

\* The callbacks of the queue: start, push, checkNextTask, runTask
QueueCallbacks ==
    \/ StartMkdirpDone
    \/ StartReaddirDone
    \/ DeferredCheck
    \/ \E op \in Ops : FlockDone(op)
    \/ \E op \in Ops : TimerFire(op)
    \/ \E op \in Ops : MkdirpDone(op)
    \/ \E op \in Ops : ReaddirRunningDone(op)
    \/ \E j \in Jobs : PushSaveId(j)
    \/ \E j \in Jobs : PushSavePending(j)
    \/ \E r \in Runners : CheckReaddir(r)
    \/ \E r \in Runners : CheckReadFile(r)
    \/ \E r \in Runners : CheckSaveId(r)
    \/ \E r \in Runners : CheckSaveRunning(r)
    \/ \E r \in Runners : CheckRmPending(r)
    \/ \E r \in Runners : RunTask(r)
    \/ \E r \in Runners : RunSaveId(r)
    \/ \E r \in Runners : RunRmRunning(r)

\* The worker calls back once, with success or with a failure
Worker == \E r \in Runners, out \in {"ok", "InternalError"} : WorkerDone(r, out)

\* Producers push tasks, the file system is reliable, nobody calls get, no
\* other process shares the task folder
Next ==
    \/ QueueCallbacks
    \/ Worker
    \/ Push(TRUE)

Spec == Init /\ [][Next]_vars

\* The file system may fail
SpecFaulty == InitFaulty /\ [][Next]_vars

\* The callbacks of get
GetCallbacks ==
    \/ \E g \in Getters : GetExists(g)
    \/ \E g \in Getters : GetReadFile(g)

\* A producer pushes one task, and callers ask for the tasks with get and
\* look at what its callback receives
NextGet ==
    \/ ~Observing /\ QueueCallbacks
    \/ ~Observing /\ Worker
    \/ ~Observing /\ pc[T(1)] = "idle" /\ Push(TRUE)
    \/ ~Observing /\ \E g \in Getters, id \in Jobs : Get(g, id)
    \/ ~Observing /\ GetCallbacks
    \/ \E g \in Getters : Mutate(g)
    \/ Return

SpecGet == Init /\ [][NextGet]_vars

SpecGetFaulty == InitFaulty /\ [][NextGet]_vars

\* The same, in a process started after another one ended with a task running
SpecGhost == InitGhost /\ [][NextGet]_vars

\* The worker calls back once, with any of its outcomes
AnyWorker == \E r \in Runners, out \in WorkerOutcomes : WorkerDone(r, out)

\* Producers push tasks whose worker may end in any way
NextOutcomes ==
    \/ QueueCallbacks
    \/ AnyWorker
    \/ Push(TRUE)

SpecOutcomes == Init /\ [][NextOutcomes]_vars

\* Another process uses the same task folder and takes the flock at times
NextShared ==
    \/ Next
    \/ External

SpecShared == Init /\ [][NextShared]_vars

\* Callers also call push without params, and the file system may fail
NextParam ==
    \/ NextGet
    \/ ~Observing /\ Push(FALSE)

SpecParam == InitFaulty /\ [][NextParam]_vars

\* A producer pushes one task, and code that holds the lock calls
\* Mutex.lock again with its identity
NextReentrant ==
    \/ QueueCallbacks
    \/ Worker
    \/ pc[T(1)] = "idle" /\ Push(TRUE)
    \/ \E op \in Ops : Reenter(op)
    \/ \E op \in Ops : AgainTimerFire(op)

SpecReentrant == Init /\ [][NextReentrant]_vars

\* The callbacks run, and the worker calls back
SpecLive == Init /\ [][Next]_vars /\ WF_vars(QueueCallbacks \/ Worker)

\* The server with its periodic check as the only source of tasks
NextPeriodic == QueueCallbacks \/ Worker \/ PeriodicCheck

SpecPeriodic == Init /\ [][NextPeriodic]_vars

\* The queue on a task folder with a pending file cut short
SpecCorrupt == InitCorrupt /\ [][Next]_vars

\* The queue created with any of the options
SpecOptions == InitOptions /\ [][Next]_vars

\* The server from its startup code on, with one push
Started == started /\ (QueueCallbacks \/ Worker \/ (pc[T(1)] = "idle" /\ Push(TRUE)))

NextRestart == RemoveOldLock \/ Started

SpecRestart ==
    InitRestart /\ [][NextRestart]_vars
      /\ WF_vars(RemoveOldLock \/ (started /\ (QueueCallbacks \/ Worker)))

\* The server with one push, on a file system that may report a failure;
\* every callback that is due runs, the worker calls back
OnePush == pc[T(1)] = "idle" /\ Push(TRUE)

NextOnePush == QueueCallbacks \/ Worker \/ OnePush

SpecFlock ==
    InitFaulty /\ [][NextOnePush]_vars /\ WF_vars(QueueCallbacks \/ Worker)

\* One call of the gitaction worker and the shell script it spawns
GitCallbacks == LogStdout \/ LogStderr \/ TimeoutFire \/ KillTimerFire \/ Close

Shell == ShPrepare \/ ShCheck \/ ShScript \/ ShExit \/ Killed

NextGit == (\E a \in Actions : GitAction(a)) \/ GitCallbacks \/ Shell

SpecGit == Init /\ [][NextGit]_vars

\* ====================================================================
\* Properties
\* ====================================================================
Terminal == {"success", "failure"}

\* The task ids in runningTasks
RunningJobs == {arg[R(r)] : r \in Range(runningTasks)}

\* C1: when maxItems > 0, the tasks in the in-memory running set are never
\* more than maxItems
C1_RunningWithinMaxItems ==
    MaxItems > 0 => Cardinality(RunningJobs) <= MaxItems

\* C2: at most one requester is inside the locked section at a time
C2_OneHolderAtATime == Cardinality({op \in Ops : InSection(op)}) <= 1

\* C3: every task push reported an id for eventually has status success or
\* failure in the id folder
C3_AcceptedJobsFinish ==
    \A j \in Jobs : (pc[T(j)] = "done") ~> (index[j].status \in Terminal)

\* C4: the status of a task's record in the id folder only changes along
\* (none) -> pending -> running -> success | failure
StatusOrder == {<<"absent", "pending">>, <<"pending", "running">>,
                <<"running", "success">>, <<"running", "failure">>}
C4_StatusSequence ==
    [][\A j \in Jobs :
         index'[j].status # index[j].status
            => <<index[j].status, index'[j].status>> \in StatusOrder]_vars

C6_FinishedJobStaysTerminal ==
    \A j \in Jobs :
        finished[j] => /\ runningB[j] = Absent
                       /\ pendingB[j] = Absent
                       /\ index[j].status \in Terminal

\* C7: unlock by an identity that is not the holder throws InternalError
\* and leaves lockedBy and the queue as they were; only the holder's unlock
\* ends a locked section
C7_UnlockByNonHolderFails ==
    [][/\ \A op \in Ops : (InSection(op) /\ ~InSection(op)') => lockedBy = op
       /\ (~crashed /\ crashed')
            => /\ thrown' = "InternalError"
               /\ lockedBy' = lockedBy
               /\ queue' = queue
               /\ \E op \in Ops : InSection(op) /\ lockedBy # op]_vars

\* an invocation called unlock while another identity was the holder
C7_Witness ==
    /\ thrown = "InternalError"
    /\ \E op \in Ops : InSection(op) /\ lockedBy # op /\ lockedBy # NoOne

\* C8: the callbacks given to lock run in the order of the calls of lock:
\* the request that is granted is the oldest one not granted yet
C8_GrantedInCallOrder ==
    [][\A op \in Ops :
         (op \in Range(requests) /\ op \notin Range(requests'))
            => op = Head(requests)]_vars

\* The invocation has reported its outcome, or has ended without one
Ended(op) == pc[op] \in {"idle", "done", "failed", "deferRun", "working",
                         "finSaveId", "finRmRunning"}

C10_PushWithoutParamsChangesNothing ==
    [][(thrown' = "ParamError" /\ thrown # "ParamError")
         => UNCHANGED <<pc, arg, obj, ret, lockedBy, queue, fd, osLock,
                        runningTasks, initialized, error, startPc,
                        deferredChecks, layout, index, pendingB, runningB,
                        faultsLeft, crashed, invoked, finished, requests>>]_vars

\* push has thrown ParamError while a task is stored and a get is under way
C10_Witness ==
    /\ thrown = "ParamError"
    /\ \E j \in Jobs : index[j] # Absent
    /\ \E g \in Getters : pc[G(g)] \notin {"idle", "done"}

\* C11: in the turn where push reports a task id, the task's record is in
\* the id folder and in the pending folder with status pending and the
\* worker has not been called for it; a record of the id folder gets status
\* pending only from push, running only from checkNextTask, success or
\* failure only from runTask's completion
C11_PushReportsPendingTask ==
    [][\A j \in Jobs :
         /\ (pc[T(j)] # "done" /\ pc'[T(j)] = "done")
               => /\ index'[j] = NewTask
                  /\ pendingB'[j] = NewTask
                  /\ invoked'[j] = 0
         /\ index'[j].status # index[j].status
               => CASE index'[j].status = "pending" ->
                         pc[T(j)] = "saveId" /\ pc'[T(j)] = "savePending"
                    [] index'[j].status = "running" ->
                         \E r \in Runners : /\ arg[R(r)] = j
                                            /\ pc[R(r)] = "saveId"
                                            /\ pc'[R(r)] = "saveRunning"
                    [] index'[j].status \in Terminal ->
                         \E r \in Runners : /\ arg[R(r)] = j
                                            /\ pc[R(r)] = "finSaveId"
                                            /\ pc'[R(r)] = "finRmRunning"
                    [] OTHER -> FALSE]_vars

\* push has reported an id, and another task has gone through running to
\* its final status
C11_Witness ==
    \E j, k \in Jobs :
        /\ pc[T(j)] = "done"
        /\ index[j] = NewTask
        /\ invoked[j] = 0
        /\ index[k].status \in Terminal

\* C12: a step of a get invocation leaves the id, pending and running
\* folders and runningTasks as they were; so does a change the caller makes
\* to the task it received, which changes no task object of the queue; a
\* task get hands over is the record of the id folder, and get of an id
\* with no record there hands over undefined
C12_GetReadsOnly ==
    [][\A g \in Getters :
         /\ (pc[G(g)] # "queued" /\ pc'[G(g)] # pc[G(g)])
               => UNCHANGED <<index, pendingB, runningB, runningTasks>>
         /\ (pc[G(g)] = "done" /\ pc'[G(g)] = "done" /\ ret'[g] # ret[g])
               => UNCHANGED <<index, pendingB, runningB, runningTasks, obj>>
         /\ (pc[G(g)] # "done" /\ pc'[G(g)] = "done" /\ ret'[g].kind = "task")
               => ret'[g].task = index[arg[G(g)]] /\ ret'[g].task.status # "mutated"
         /\ (pc[G(g)] = "exists" /\ pc'[G(g)] = "done"
                /\ index[arg[G(g)]] = Absent)
               => ret'[g].kind = "undefined"]_vars

\* the caller has changed the task get handed over while the task is in
\* runningTasks
C12_Witness ==
    \E g \in Getters :
        /\ ret[g].kind = "task"
        /\ ret[g].task.status = "mutated"
        /\ arg[G(g)] \in RunningJobs

\* C13: a file of the id, pending or running folder is written or removed
\* only while the invocation that works on the task is in its locked
\* section, the writes of runTask's completion included
C13_StoreChangedUnderLock ==
    [][\A j \in Jobs :
         (index'[j] # index[j] \/ pendingB'[j] # pendingB[j]
            \/ runningB'[j] # runningB[j])
           => \E op \in Ops : InSection(op) /\ arg[op] = j]_vars

\* An fs.writeFile of task j's record in the id folder has been asked for
\* and has not called back
WritingIndex(j) ==
    \/ pc[T(j)] = "saveId"
    \/ \E r \in Runners : arg[R(r)] = j /\ pc[R(r)] \in {"saveId", "finSaveId"}

\* An fs.readFile of task j's record in the id folder has been asked for by
\* get and has not called back
ReadingIndex(j) == \E g \in Getters : arg[G(g)] = j /\ pc[G(g)] = "readFile"

\* C14: get's read of a record of the id folder never overlaps a write of
\* that record by push, checkNextTask or runTask's completion
C14_NoReadDuringWrite == \A j \in Jobs : ~(ReadingIndex(j) /\ WritingIndex(j))

\* The pending and running folders agree with task j's record in the id
\* folder
BucketsAgree(j) ==
    /\ runningB[j] # Absent => index[j].status = "running"
    /\ pendingB[j] # Absent => index[j].status = "pending"

\* An invocation works on task j in its locked section, or runTask's
\* completion of j is under way
InTransition(j) ==
    \/ \E op \in Ops : InSection(op) /\ arg[op] = j
    \/ \E r \in Runners : arg[R(r)] = j /\ pc[R(r)] \in {"finSaveId", "finRmRunning"}

C16_IndexWrittenFirst ==
    [][\A j \in Jobs :
         /\ (pendingB'[j] # pendingB[j] /\ pendingB'[j] # Absent)
               => index[j].status = "pending" /\ index' = index
         /\ (runningB'[j] # runningB[j] /\ runningB'[j] # Absent)
               => index[j].status = "running" /\ index' = index
         /\ (pendingB'[j] # pendingB[j] /\ pendingB'[j] = Absent)
               => /\ index[j].status = "running" /\ index' = index
                  /\ runningB[j] # Absent
         /\ (runningB'[j] # runningB[j] /\ runningB'[j] = Absent)
               => index[j].status \in Terminal /\ index' = index]_vars

\* runTask has been scheduled for the runner's task, or its worker runs
Dispatched(r) == pc[R(r)] \in {"deferRun", "working"}

\* C17: from the turn checkNextTask schedules runTask to the worker's
\* callback, the runner is neither the holder of the lock nor waiting for
\* it, so a push or a get can be granted the lock meanwhile
C17_NoLockWhileWorking ==
    \A r \in Runners :
        Dispatched(r) => lockedBy # R(r) /\ R(r) \notin Range(queue)

\* a push is in its locked section, as the holder, while a worker runs
C17_Witness ==
    \E r \in Runners, j \in Jobs :
        /\ pc[R(r)] = "working"
        /\ InSection(T(j))
        /\ lockedBy = T(j)

\* C18: while an invocation is in its locked section, the process holds the
\* flock on the lock file, also when the lock came from Mutex.queue
C18_SectionHoldsFlock ==
    \A op \in Ops : InSection(op) => osLock = "self"

\* C19: a second call of lock by the identity that holds the lock is
\* granted without the holder releasing first: the call is not left in
\* Mutex.queue behind its own hold
C19_ReentrantLockGranted ==
    \A op \in Ops :
        ~(lockedBy = op /\ InSection(op) /\ Again(op) \in Range(queue))

\* The call of Mutex.lock with identity op has been made and its callback
\* has not run
Requested(op) == pc[op] \in {"flock", "queued", "timer"}

\* C20: the callback given to lock never runs in the turn of the call: the
\* turn that makes the call leaves the request waiting for fs.flock or in
\* Mutex.queue, and an invocation enters its locked section only in a later
\* turn, from the callback of fs.flock or of setTimeout
C20_GrantIsAsynchronous ==
    [][\A op \in Ops :
         /\ (~Requested(op) /\ ~InSection(op) /\ pc'[op] # pc[op])
               => ~InSection(op)'
         /\ (~InSection(op) /\ InSection(op)')
               => pc[op] \in {"flock", "timer"}]_vars

\* one invocation was granted the lock by the callback of fs.flock and the
\* next one, which had called lock meanwhile, by the release
C20_Witness ==
    \E op \in Ops :
        /\ InSection(op)
        /\ lockedBy = op
        /\ osLock = "free"
        /\ \E other \in Ops : pc[other] \in {"done", "deferRun"}

\* C21: the task a process that ended left in the running folder is never
\* repaired: it is not in runningTasks, the worker is not called for it, it
\* is not put in the pending folder, its files stay as they were with
\* status running, and get hands over that record
C21_GhostTaskLeftAsIs ==
    /\ Ghost \notin RunningJobs
    /\ invoked[Ghost] = 0
    /\ pendingB[Ghost] = Absent
    /\ runningB[Ghost] = RunningRecord
    /\ index[Ghost] = RunningRecord
    /\ \A g \in Getters :
         (arg[G(g)] = Ghost /\ ret[g].kind = "task"
            /\ ret[g].task.status # "mutated")
           => ret[g].task = RunningRecord

\* get has handed over the record of the task left running, after the new
\* process has run another task to its end
C21_Witness ==
    /\ \E j \in Jobs : j # Ghost /\ finished[j]
    /\ \E g \in Getters : /\ arg[G(g)] = Ghost
                           /\ ret[g].kind = "task"
                           /\ ret[g].task = RunningRecord

\* C22: a task whose worker reported a failure is recorded with status
\* failure, the error as a string, and errorCode 400 for a ParamError, 503
\* for a ProxyError and 500 for anything else
C22_FailureRecord ==
    /\ \A r \in Runners :
         (pc[R(r)] \in {"finSaveId", "finRmRunning"} /\ obj[r].error # "none")
           => obj[r].status = "failure"
    /\ \A j \in Jobs :
         index[j].status = "failure"
           => /\ index[j].error \in {"ParamError", "ProxyError", "InternalError"}
              /\ index[j].errorCode = CASE index[j].error = "ParamError" -> 400
                                         [] index[j].error = "ProxyError" -> 503
                                         [] OTHER -> 500

\* a ParamError and a ProxyError have been recorded
C22_Witness ==
    \E j, k \in Jobs : /\ index[j].status = "failure"
                        /\ index[j].errorCode = 400
                        /\ index[k].status = "failure"
                        /\ index[k].errorCode = 503

\* C23: in every record of the id folder, error and errorCode are set only
\* when status is failure, result only when status is success, and
\* dateFinished exactly when status is success or failure
C23_RecordFields ==
    \A j \in Jobs :
        index[j] # Absent
          => /\ index[j].error # "none" => index[j].status = "failure"
             /\ index[j].errorCode # 0 => index[j].status = "failure"
             /\ index[j].result => index[j].status = "success"
             /\ index[j].dateFinished <=> index[j].status \in Terminal

\* the id folder holds a success with a result and a failure
C23_Witness ==
    \E j, k \in Jobs : /\ index[j].status = "success"
                        /\ index[j].result
                        /\ index[k].status = "failure"

\* C24: whether runTask's save to the id folder and its removal from the
\* running folder succeed or fail, the completion goes on: the task has
\* left runningTasks, nothing is thrown, the task is not put back in the
\* pending folder nor given to the worker again, and checkNextTask is
\* scheduled at the end
C24_BookkeepingFailureLogged ==
    [][\A r \in Runners :
         /\ (pc[R(r)] = "finSaveId" /\ pc'[R(r)] # "finSaveId")
               => /\ pc'[R(r)] = "finRmRunning"
                  /\ r \notin Range(runningTasks')
                  /\ UNCHANGED <<pendingB, invoked, crashed, thrown>>
         /\ (pc[R(r)] = "finRmRunning" /\ pc'[R(r)] # "finRmRunning")
               => /\ pc'[R(r)] = "idle"
                  /\ finished'[arg[R(r)]]
                  /\ deferredChecks' = deferredChecks + 1
                  /\ r \notin Range(runningTasks')
                  /\ UNCHANGED <<pendingB, invoked, crashed, thrown>>]_vars

\* the completion of a task has ended although its final record could not
\* be saved
C24_Witness ==
    \E j \in Jobs : /\ finished[j]
                     /\ index[j].status = "running"
                     /\ faultsLeft < MaxFaults
                     /\ invoked[j] = 1
                     /\ ~crashed

\* The worker has returned and no listener of its child is left to run
GitEnded == action.given /\ script # "child"

\* C25: the gitaction worker calls callback once and only once: with
\* ParamError and no child when origin or script is missing, otherwise when
\* the child closes; a child that a signal ended is reported as
\* InternalError
C25_CallbackOnce ==
    /\ called <= 1
    /\ GitEnded => called = 1
    /\ (action.given /\ (~action.origin \/ ~action.script))
          => script = "none" /\ reported = "ParamError"
    /\ (script = "null" /\ code = Null) => reported = "InternalError"

\* C26: a periodic check made while runningTasks is not empty pushes
\* nothing; made while it is empty, it pushes one task for each periodic
\* hook
C26_PeriodicCheckPushes ==
    [][checks' # checks
         => LET pushed == {j \in Jobs : pc[T(j)] = "idle" /\ pc'[T(j)] # "idle"}
            IN IF Len(runningTasks) > 0
               THEN pushed = {} /\ requests' = requests /\ arg' = arg
               ELSE /\ Cardinality(pushed) = PeriodicHooks
                    /\ Len(requests') = Len(requests) + PeriodicHooks]_vars

\* a check was postponed, and another one has pushed its task
C26_Witness ==
    /\ checks = MaxChecks
    /\ Cardinality({j \in Jobs : pc[T(j)] # "idle"}) = PeriodicHooks
    /\ Len(runningTasks) > 0

\* C27: removeTaskFromFolder on a task that has no file in the folder
\* reports success: the callback of a checkNextTask that finds the pending
\* file of its task already removed can end with the task scheduled for
\* execution
C27_RemoveMissingSucceeds ==
    \A r \in Runners :
        (/\ ~crashed
         /\ pc[R(r)] = "rmPending"
         /\ pendingB[arg[R(r)]] = Absent)
          => ENABLED (CheckRmPending(r) /\ pc'[R(r)] = "deferRun")

\* The callbacks a waterfall runs once whenReady has reported success
PastReady == SectionPcs \ {"mkdirp", "rdrunning"}

\* C28: whenReady reports success only when the id, pending and running
\* folders are there: once their creation has failed, no push, get or
\* checkNextTask goes on to its file operations
C28_ReadyOnlyWithLayout ==
    \A op \in Ops : pc[op] \in PastReady => layout

\* gitaction.sh has gone through its check and action section
Decided == sh = "exit" \/ (sh = "exited" /\ needsUpdate # Unset)

\* The child has closed with the exit status of gitaction.sh
ClosedWithStatus == script = "null" /\ code # Null

C30_StaleLockNoObstacle ==
    /\ [](started => oldLock # "stale")
    /\ <>(started /\ lockedBy # NoOne)

\* the lock is held in a process started where a lock file had been left
C30_Witness ==
    /\ started
    /\ lockedBy # NoOne
    /\ osLock = "self"
    /\ oldLock = "removed"
    /\ \E r \in Runners : pc[R(r)] \in SectionPcs

\* A step that runs one checkNextTask call: a deferred one, or the one of
\* start
CheckStep == deferredChecks' < deferredChecks \/ (startPc = "rdrunning" /\ startPc' = "done")

\* C31: a checkNextTask call made while maxItems > 0 tasks or more are in
\* runningTasks does nothing: no request for the lock, no change of the
\* folders, of runningTasks or of the calls of the worker; with maxItems
\* not above 0 every checkNextTask call asks for the lock
C31_NoopAtCapacity ==
    [][CheckStep
         => IF maxItems > 0 /\ Len(runningTasks) >= maxItems
            THEN UNCHANGED <<pc, arg, obj, lockedBy, queue, fd, osLock, requests,
                             runningTasks, diskVars, invoked, finished>>
            ELSE /\ Len(requests') = Len(requests) + 1
                 /\ \E r \in Runners : pc[R(r)] = "idle" /\ pc'[R(r)] \in {"flock", "queued"}]_vars

\* with maxItems -1, a check has asked for the lock while a task was running
C31_Witness ==
    /\ maxItems = -1
    /\ Len(runningTasks) > 0
    /\ \E r \in Runners : pc[R(r)] \in {"flock", "queued"}

\* The final callback of a checkNextTask whose read or parse failed has
\* released the lock and changed nothing else
FailsSoft(r) ==
    /\ pc'[R(r)] = "idle"
    /\ lockedBy' # R(r)
    /\ ~crashed'
    /\ thrown' = thrown
    /\ UNCHANGED <<runningTasks, diskVars, invoked, deferredChecks>>

\* C32: when checkNextTask cannot read or parse the pending file it has
\* selected, its callback cannot do anything but fail soft: nothing is
\* thrown, runningTasks and the folders are unchanged, the lock is
\* released, the worker is not called
C32_ReadFailureFailsSoft ==
    \A r \in Runners :
        (~crashed /\ pc[R(r)] = "readFile")
          => ~ENABLED (/\ CheckReadFile(r)
                       /\ pc'[R(r)] # "saveId"
                       /\ ~FailsSoft(r))

\* C33: every unlock the queue makes is made by the holder of the lock:
\* the InternalError of Mutex.unlock is never thrown out of a callback
C33_UnlockedByHolderOnly ==
    ~(crashed /\ thrown = "InternalError")

\* C34: every request made to Mutex.lock is granted in the end, the ones
\* queued because fs.flock reported an error included
C34_RequestsGranted ==
    \A op \in Ops : Requested(op) ~> ~Requested(op)

\* A runner whose checkNextTask has pushed its task to runningTasks and has
\* not failed: it is in the rest of the waterfall, its runTask is deferred,
\* or the worker has the task and has not called back
Dispatching(r) ==
    pc[R(r)] \in {"saveId", "saveRunning", "rmPending", "deferRun", "working"}

\* C35: runningTasks holds exactly the tasks that are being dispatched to
\* the worker or are with the worker: a checkNextTask that fails after it
\* selected a task does not leave the task in runningTasks
C35_RunningTasksAreDispatched ==
    ~crashed => \A r \in Runners : r \in Range(runningTasks) <=> Dispatching(r)

\* The server's queue on a task folder where a process that ended has left
\* a pending file cut short, with a file system that reports no failure
InitCutShort ==
    /\ Serving
    /\ GitIdle
    /\ QueueWith(0, {}, TRUE, [Empty EXCEPT ![Ghost] = Corrupt])

\* The queue on that folder, with every callback run when it is due
SpecCutShort == InitCutShort /\ [][Next]_vars /\ WF_vars(QueueCallbacks \/ Worker)

\* The pending files JSON.parse accepts
Readable == {j \in PendingFiles : pendingB[j] # Corrupt}

\* C36: a pending file that cannot be parsed does not block the others: a
\* task whose readable file is in the pending folder beside it is given to
\* the worker in the end
C36_CorruptFileBlocksNothing ==
    \A j \in Jobs :
        (j \in Readable /\ Readable # PendingFiles) ~> invoked[j] > 0

\* No call of the queue is in flight: start has ended, no push, get,
\* checkNextTask or runTask awaits a callback of the lock or of the file
\* system, no checkNextTask is deferred; workers may be at work
Quiet ==
    /\ ~crashed
    /\ startPc = "done"
    /\ deferredChecks = 0
    /\ \A o \in DOMAIN pc : pc[o] \in {"idle", "done", "failed", "working"}

\* The tasks the worker has been called with and has not called back for
AtWork == {r \in Runners : pc[R(r)] = "working"}

\* C37: the queue is work-conserving: when no call of the queue is in
\* flight, no task is pending (with a file that can be read) while fewer
\* than maxItems tasks are running, and none at all when maxItems sets no
\* limit
C37_WorkConserving ==
    Quiet => \/ Readable = {}
             \/ maxItems > 0 /\ Cardinality(AtWork) >= maxItems

\* new TaskQueue(worker, options) and start() on the task folder of a
\* process that has ended and left tasks in the pending folder
InitPending ==
    /\ GitIdle
    /\ checks = 0
    /\ oldLock = "none"
    /\ started = TRUE
    /\ \E o \in Options : maxItems = MaxItemsOf(o)
    /\ \E pend \in [Jobs -> {Absent, NewTask}] : QueueWith(0, {}, TRUE, pend)

\* The calls start, checkNextTask and runTask make, and the worker's; no
\* push and no get
Drain ==
    \/ StartMkdirpDone
    \/ StartReaddirDone
    \/ DeferredCheck
    \/ \E r \in Runners : FlockDone(R(r))
    \/ \E r \in Runners : CheckReaddir(r)
    \/ \E r \in Runners : CheckReadFile(r)
    \/ \E r \in Runners : CheckSaveId(r)
    \/ \E r \in Runners : CheckSaveRunning(r)
    \/ \E r \in Runners : CheckRmPending(r)
    \/ \E r \in Runners : RunTask(r)
    \/ \E r \in Runners : RunSaveId(r)
    \/ \E r \in Runners : RunRmRunning(r)
    \/ AnyWorker

\* The queue started on tasks left pending, nothing pushed, every callback
\* run when it is due and every worker calling back
SpecPending == InitPending /\ [][Drain]_vars /\ WF_vars(Drain)

====
